---------------------------- MODULE Spec2Model ----------------------------
(***************************************************************************)
(* A model of commands/s3_client.go: the S3 artifact resolver              *)
(* (GetAllProductVersions, GetLatestProductFile) and the download path     *)
(* (DownloadProductToFile) of S3Client, over a Stower whose calls may      *)
(* fail.                                                                   *)
(*                                                                         *)
(* Text (keys, slugs, versions, globs, patterns) is a sequence of          *)
(* one-character strings, so that regexp and glob matching can be computed *)
(* character by character as the Go libraries do.                          *)
(***************************************************************************)
EXTENDS Integers, Sequences, FiniteSets, TLC

-----------------------------------------------------------------------------
(* Bounds of the model. *)

\* the longest bucket listing the Stower's Walk reports
MaxFiles == 3

\* the largest size (in bytes) of a stored blob
MaxBytes == 1

-----------------------------------------------------------------------------
(* Text helpers. *)

Range(s) == {s[i] : i \in 1..Len(s)}

RECURSIVE TrimLeft(_, _)
TrimLeft(s, c) ==
    IF s # <<>> /\ Head(s) = c THEN TrimLeft(Tail(s), c) ELSE s

RECURSIVE TrimRight(_, _)
TrimRight(s, c) ==
    IF s # <<>> /\ s[Len(s)] = c THEN TrimRight(SubSeq(s, 1, Len(s) - 1), c) ELSE s

\* strings.Trim(s, "/")
Trim(s) == TrimRight(TrimLeft(s, "/"), "/")

\* the characters regexp.QuoteMeta escapes
RegexpSpecial == {"\\", ".", "+", "*", "?", "(", ")", "|", "[", "]", "{", "}", "^", "$"}

\* regexp.QuoteMeta(s): every special character gets a backslash before it
RECURSIVE QuoteMeta(_)
QuoteMeta(s) ==
    IF s = <<>> THEN <<>>
    ELSE (IF Head(s) \in RegexpSpecial THEN <<"\\", Head(s)>> ELSE <<Head(s)>>)
         \o QuoteMeta(Tail(s))

\* filepath.Base(f): the last path element, trailing slashes removed first
RECURSIVE LastElement(_)
LastElement(s) ==
    IF \E i \in 1..Len(s) : s[i] = "/"
    THEN LastElement(Tail(s))
    ELSE s

Base(f) ==
    IF f = <<>> THEN <<".">>
    ELSE IF TrimRight(f, "/") = <<>> THEN <<"/">>
    ELSE LastElement(TrimRight(f, "/"))

-----------------------------------------------------------------------------
(* regexp: the part of Go's syntax the two patterns of the client use:     *)
(* ^, literals, \x escapes, '.', capture groups, and the repetitions ?, *  *)
(* and *? after a single character.                                        *)

Tok(op, ch, q, g) == [op |-> op, ch |-> ch, q |-> q, g |-> g]

CompileError == [ok |-> FALSE, toks |-> <<>>, ngroups |-> 0]

\* the repetition written at t[j] (after an atom) and the index after it
Repetition(t, j) ==
    IF j <= Len(t) /\ t[j] = "?" THEN [q |-> "opt", next |-> j + 1]
    ELSE IF j <= Len(t) /\ t[j] = "*"
         THEN IF j + 1 <= Len(t) /\ t[j + 1] = "?"
              THEN [q |-> "lazy", next |-> j + 2]
              ELSE [q |-> "star", next |-> j + 1]
    ELSE [q |-> "one", next |-> j]

\* regexp.Compile, from position i of the pattern text t: toks is what was
\* parsed so far, open the stack of the groups not yet closed, n the number of
\* groups opened
RECURSIVE Parse(_, _, _, _, _)
Parse(t, i, toks, open, n) ==
    IF i > Len(t)
    THEN IF open = <<>> THEN [ok |-> TRUE, toks |-> toks, ngroups |-> n]
         ELSE CompileError                         \* missing closing )
    ELSE LET c == t[i] IN
         CASE c = "^" -> Parse(t, i + 1, Append(toks, Tok("bol", "", "one", 0)), open, n)
           [] c = "(" -> Parse(t, i + 1, Append(toks, Tok("open", "", "one", n + 1)),
                               <<n + 1>> \o open, n + 1)
           [] c = ")" -> IF open = <<>> THEN CompileError      \* unexpected )
                         ELSE Parse(t, i + 1, Append(toks, Tok("close", "", "one", Head(open))),
                                    Tail(open), n)
           [] c \in {"?", "*"} -> CompileError    \* missing argument to repetition
           [] c = "\\" ->
                IF i = Len(t) THEN CompileError    \* trailing backslash
                ELSE LET r == Repetition(t, i + 2) IN
                     Parse(t, r.next, Append(toks, Tok("lit", t[i + 1], r.q, 0)), open, n)
           [] c = "." ->
                LET r == Repetition(t, i + 1) IN
                Parse(t, r.next, Append(toks, Tok("any", "", r.q, 0)), open, n)
           [] OTHER ->
                LET r == Repetition(t, i + 1) IN
                Parse(t, r.next, Append(toks, Tok("lit", c, r.q, 0)), open, n)

Compile(t) == Parse(t, 1, <<>>, <<>>, 0)

NoMatch == [ok |-> FALSE, from |-> <<>>, to |-> <<>>]

Accepts(tok, c) ==
    \/ tok.op = "lit" /\ tok.ch = c
    \/ tok.op = "any" /\ c # "\n"

\* the leftmost-first match of toks[k..] against s[i..]; from and to are the
\* bounds of each group (0 when the group took no part)
RECURSIVE Run(_, _, _, _, _, _)
Run(toks, k, s, i, from, to) ==
    IF k > Len(toks) THEN [ok |-> TRUE, from |-> from, to |-> to]
    ELSE LET tok == toks[k]
             here == i <= Len(s) /\ Accepts(tok, s[i])
         IN
         CASE tok.op = "bol" ->
                IF i = 1 THEN Run(toks, k + 1, s, i, from, to) ELSE NoMatch
           [] tok.op = "open" ->
                Run(toks, k + 1, s, i, [from EXCEPT ![tok.g] = i], to)
           [] tok.op = "close" ->
                Run(toks, k + 1, s, i, from, [to EXCEPT ![tok.g] = i])
           [] tok.q = "one" ->
                IF here THEN Run(toks, k + 1, s, i + 1, from, to) ELSE NoMatch
           [] tok.q = "opt" ->
                LET taken == IF here THEN Run(toks, k + 1, s, i + 1, from, to) ELSE NoMatch
                IN IF taken.ok THEN taken ELSE Run(toks, k + 1, s, i, from, to)
           [] tok.q = "star" ->
                LET more == IF here THEN Run(toks, k, s, i + 1, from, to) ELSE NoMatch
                IN IF more.ok THEN more ELSE Run(toks, k + 1, s, i, from, to)
           [] OTHER ->  \* lazy
                LET none == Run(toks, k + 1, s, i, from, to)
                IN IF none.ok THEN none
                   ELSE IF here THEN Run(toks, k, s, i + 1, from, to) ELSE NoMatch

\* Regexp.FindStringSubmatch(s) of a compiled pattern that starts with ^:
\* <<>> for nil, otherwise <<match[1], ..., match[ngroups]>>
FindStringSubmatch(re, s) ==
    LET zero == [g \in 1..re.ngroups |-> 0]
        m == Run(re.toks, 1, s, 1, zero, zero)
    IN IF ~m.ok THEN [found |-> FALSE, sub |-> <<>>]
       ELSE [found |-> TRUE,
             sub |-> [g \in 1..re.ngroups |->
                        IF m.from[g] = 0 \/ m.to[g] = 0 THEN <<>>
                        ELSE SubSeq(s, m.from[g], m.to[g] - 1)]]

\* Regexp.MatchString(s)
MatchString(re, s) == FindStringSubmatch(re, s).found

-----------------------------------------------------------------------------
(* filepath.Match: '*', '?', character classes [...] and literals.         *)

\* the index of the ] closing the class opened at p[i], 0 when there is none;
\* a class holds at least one character, so the first one is never the end
ClassEnd(p, i) ==
    LET first == IF i + 1 <= Len(p) /\ p[i + 1] = "^" THEN i + 2 ELSE i + 1
        ends == {j \in (first + 1)..Len(p) : p[j] = "]"}
    IN IF first <= Len(p) /\ p[first] # "]" /\ ends # {}
       THEN CHOOSE j \in ends : \A l \in ends : j <= l
       ELSE 0

\* filepath.ErrBadPattern
RECURSIVE BadPattern(_, _)
BadPattern(p, i) ==
    IF i > Len(p) THEN FALSE
    ELSE IF p[i] = "[" THEN IF ClassEnd(p, i) = 0 THEN TRUE
                            ELSE BadPattern(p, ClassEnd(p, i) + 1)
    ELSE BadPattern(p, i + 1)

InClass(p, i, c) ==
    LET negated == p[i + 1] = "^"
        first == IF negated THEN i + 2 ELSE i + 1
        member == \E j \in first..(ClassEnd(p, i) - 1) : p[j] = c
    IN member # negated

RECURSIVE GlobRun(_, _, _, _)
GlobRun(p, i, s, j) ==
    IF i > Len(p) THEN j > Len(s)
    ELSE CASE p[i] = "*" ->
                \E k \in j..(Len(s) + 1) :
                    /\ \A l \in j..(k - 1) : s[l] # "/"
                    /\ GlobRun(p, i + 1, s, k)
           [] p[i] = "?" ->
                j <= Len(s) /\ s[j] # "/" /\ GlobRun(p, i + 1, s, j + 1)
           [] p[i] = "[" ->
                j <= Len(s) /\ InClass(p, i, s[j]) /\ GlobRun(p, ClassEnd(p, i) + 1, s, j + 1)
           [] OTHER ->
                j <= Len(s) /\ s[j] = p[i] /\ GlobRun(p, i + 1, s, j + 1)

\* matched, _ := filepath.Match(pattern, name): false when the pattern is bad
Match(pattern, name) ==
    ~BadPattern(pattern, 1) /\ GlobRun(pattern, 1, name, 1)

-----------------------------------------------------------------------------
(* The inputs the operations are called with, and the bucket.              *)

\* object keys a bucket may hold:
\*   p/[a,1]x   p/[a,1]d/y   /p/[a,2]x   p/[b,1]x   [a,1]x
Keys ==
    { <<"p", "/", "[", "a", ",", "1", "]", "x">>,
      <<"p", "/", "[", "a", ",", "1", "]", "d", "/", "y">>,
      <<"/", "p", "/", "[", "a", ",", "2", "]", "x">>,
      <<"p", "/", "[", "b", ",", "1", "]", "x">>,
      <<"[", "a", ",", "1", "]", "x">> }

\* S3Configuration.Path: absent, "/p/" and "."
Paths == { <<>>, <<"/", "p", "/">>, <<".">> }

\* S3Configuration.Endpoint: absent and "e"
Endpoints == { <<>>, <<"e">> }

\* product slugs: a  .  (a)  (
Slugs == { <<"a">>, <<".">>, <<"(", "a", ")">>, <<"(">> }

\* versions: 1  2  .
Versions == { <<"1">>, <<"2">>, <<".">> }

\* globs: *  *[xz]  z  [
Globs == { <<"*">>, <<"*", "[", "x", "z", "]">>, <<"z">>, <<"[">> }

\* the errors the Stower's calls fail with
Errs == {"E1", "E2"}

\* sequences of distinct keys, in any order: what Walk may report
RECURSIVE Listings(_)
Listings(n) ==
    IF n = 0 THEN { <<>> }
    ELSE LET shorter == Listings(n - 1) IN
         shorter \cup UNION { {Append(l, k) : k \in Keys \ Range(l)} :
                              l \in {m \in shorter : Len(m) = n - 1} }

-----------------------------------------------------------------------------
(* Errors and results.                                                     *)

\* an error value: its kind and the values its message is formatted from
Error(kind, slug, version, glob, paths, endpoint, cause) ==
    [kind |-> kind, slug |-> slug, version |-> version, glob |-> glob,
     paths |-> paths, endpoint |-> endpoint, cause |-> cause]

Nil == Error("nil", <<>>, <<>>, <<>>, <<>>, <<>>, "")

\* an error a Stower call returned, as it is
StowerError(e) == Error("Stower", <<>>, <<>>, <<>>, <<>>, <<>>, e)

\* errors.New(fmt.Sprintf(InvalidEndpointErrorMessageTemplate, endpoint, err.Error()))
InvalidEndpointError(endpoint, e) ==
    Error("InvalidEndpoint", <<>>, <<>>, <<>>, <<>>, endpoint, e)

\* fmt.Errorf("bucket contains no files")
BucketEmptyError == Error("BucketEmpty", <<>>, <<>>, <<>>, <<>>, <<>>, "")

\* fmt.Errorf("no files matching pivnet-product-slug %s found", slug)
NoFilesForSlugError(slug) == Error("NoFilesForSlug", slug, <<>>, <<>>, <<>>, <<>>, "")

\* fmt.Errorf("no product files with expected prefix [%s,%s] found. ...", slug, version)
NoPrefixMatchError(slug, version) ==
    Error("NoPrefixMatch", slug, version, <<>>, <<>>, <<>>, "")

\* fmt.Errorf("the glob '%s' matches multiple files. ...%s", glob, strings.Join(paths, "\n  "))
GlobMatchesMultipleError(glob, paths) ==
    Error("GlobMatchesMultiple", <<>>, <<>>, glob, paths, <<>>, "")

\* fmt.Errorf("the glob '%s' matches no file", glob)
GlobMatchesNoneError(glob) == Error("GlobMatchesNone", <<>>, <<>>, glob, <<>>, <<>>, "")

\* errors.New("downloading stemcells for s3 is not supported at this time")
UnsupportedError == Error("Unsupported", <<>>, <<>>, <<>>, <<>>, <<>>, "")

\* what a call gives back: how it ended ("returned", or "panicked" when it
\* did not return), the value and the error returned, and the calls it made
Outcome(pc, value, err, events) ==
    [pc |-> pc, value |-> value, err |-> err, events |-> events]

-----------------------------------------------------------------------------
(* The Stower: what its calls do during one operation of the client.  The  *)
(* call named by failAt fails with err, the others succeed; size is the    *)
(* blob's size and copied the bytes its stream yields.                     *)

Behaviour(failAt, err, size, copied) ==
    [failAt |-> failAt, err |-> err, size |-> size, copied |-> copied]

Healthy == Behaviour("none", "", 0, 0)

\* during listFiles: Dial, Container and Walk
ListBehaviours ==
    {Healthy} \cup {Behaviour(f, e, 0, 0) : f \in {"dial", "container", "walk"}, e \in Errs}

\* during initializeBlobReader and the copy: Dial, Container, Item, Size,
\* Open, and the reads of the stream
BlobBehaviours ==
    {Behaviour(f, e, 0, 0) : f \in {"dial", "container", "item", "size"}, e \in Errs}
    \cup {Behaviour("open", e, n, 0) : e \in Errs, n \in 0..MaxBytes}
    \cup UNION {{Behaviour("copy", e, n, k) : k \in 0..n} : e \in Errs, n \in 0..MaxBytes}
    \cup {Behaviour("none", "", n, n) : n \in 0..MaxBytes}

-----------------------------------------------------------------------------
(* S3Client.listFiles                                                      *)

\* the error returned when location.Container fails
ListContainerError(endpoint, e) ==
    IF endpoint # <<>> THEN InvalidEndpointError(endpoint, e) ELSE StowerError(e)

\* a faulty ListedPaths: the check for an empty listing is left out
ListedPathsUnchecked(paths, events) ==
    [paths |-> paths, err |-> Nil, events |-> events]

\* the check of the paths Walk collected
ListedPaths(paths, events) ==
    IF Len(paths) = 0
    THEN [paths |-> <<>>, err |-> BucketEmptyError, events |-> events]
    ELSE [paths |-> paths, err |-> Nil, events |-> events]

listFiles(files, endpoint, st) ==
    IF st.failAt = "dial"
    THEN [paths |-> <<>>, err |-> StowerError(st.err), events |-> <<"Dial">>]
    ELSE IF st.failAt = "container"
    THEN [paths |-> <<>>, err |-> ListContainerError(endpoint, st.err),
          events |-> <<"Dial", "Container">>]
    ELSE IF st.failAt = "walk"
    THEN [paths |-> <<>>, err |-> StowerError(st.err),
          events |-> <<"Dial", "Container", "Walk">>]
    ELSE ListedPaths(files, <<"Dial", "Container", "Walk">>)

-----------------------------------------------------------------------------
(* S3Client.GetAllProductVersions                                          *)

\* fmt.Sprintf(`^/?%s/?\[%s,(.*?)\]`, regexp.QuoteMeta(strings.Trim(path, "/")), slug)
ProductFilePattern(path, slug) ==
    <<"^", "/", "?">> \o QuoteMeta(Trim(path)) \o <<"/", "?", "\\", "[">>
        \o slug \o <<",", "(", ".", "*", "?", ")", "\\", "]">>

productFileCompiledRegex(path, slug) == Compile(ProductFilePattern(path, slug))

\* a faulty AddVersion: versionFound is not consulted
AddVersionAlways(acc, re, fileName) ==
    LET match == FindStringSubmatch(re, fileName) IN
    IF match.found
    THEN [versions |-> Append(acc.versions, match.sub[1]),
          versionFound |-> acc.versionFound \cup {match.sub[1]}]
    ELSE acc

\* one turn of the loop over the files: the version of fileName is appended
\* unless it was found before
AddVersion(acc, re, fileName) ==
    LET match == FindStringSubmatch(re, fileName) IN
    IF match.found /\ match.sub[1] \notin acc.versionFound
    THEN [versions |-> Append(acc.versions, match.sub[1]),
          versionFound |-> acc.versionFound \cup {match.sub[1]}]
    ELSE acc

RECURSIVE CollectVersions(_, _, _, _)
CollectVersions(re, files, i, acc) ==
    IF i > Len(files) THEN acc.versions
    ELSE CollectVersions(re, files, i + 1, AddVersion(acc, re, files[i]))

ProductVersions(re, files) ==
    CollectVersions(re, files, 1, [versions |-> <<>>, versionFound |-> {}])

GetAllProductVersionsCall(files, path, endpoint, slug, st) ==
    LET listed == listFiles(files, endpoint, st)
        re == productFileCompiledRegex(path, slug)
        versions == ProductVersions(re, listed.paths)
    IN IF listed.err # Nil THEN Outcome("returned", <<>>, listed.err, listed.events)
       ELSE IF ~re.ok THEN Outcome("panicked", <<>>, Nil, listed.events)  \* MustCompile
       ELSE IF Len(versions) = 0
            THEN Outcome("returned", <<>>, NoFilesForSlugError(slug), listed.events)
       ELSE Outcome("returned", versions, Nil, listed.events)

-----------------------------------------------------------------------------
(* S3Client.GetLatestProductFile                                           *)

\* fmt.Sprintf(`^/?%s/?\[%s,%s\]`, regexp.QuoteMeta(strings.Trim(path, "/")), slug,
\*             regexp.QuoteMeta(version))
ValidFilePattern(path, slug, version) ==
    <<"^", "/", "?">> \o QuoteMeta(Trim(path)) \o <<"/", "?", "\\", "[">>
        \o slug \o <<",">> \o QuoteMeta(version) \o <<"\\", "]">>

validFile(path, slug, version) == Compile(ValidFilePattern(path, slug, version))

\* the first loop: the files the pattern matches, in the listing's order
PrefixedFilepaths(re, files) == SelectSeq(files, LAMBDA f : MatchString(re, f))

\* a faulty GlobMatchedFilepaths: the glob is matched against the whole key
GlobMatchedFullPaths(glob, prefixed) ==
    SelectSeq(prefixed, LAMBDA f : Match(glob, f))

\* the second loop: the prefixed files whose base name the glob matches
GlobMatchedFilepaths(glob, prefixed) ==
    SelectSeq(prefixed, LAMBDA f : Match(glob, Base(f)))

\* one filepath.Match call for each prefixed file
MatchEvents(prefixed) == [i \in 1..Len(prefixed) |-> "Match"]

\* a faulty ChooseGlobMatched: the first of several matches is returned
ChooseFirstGlobMatched(glob, matched, events) ==
    IF Len(matched) = 0
    THEN Outcome("returned", <<>>, GlobMatchesNoneError(glob), events)
    ELSE Outcome("returned", <<matched[1]>>, Nil, events)

\* what is returned for the files the glob matched
ChooseGlobMatched(glob, matched, events) ==
    IF Len(matched) > 1
    THEN Outcome("returned", <<>>, GlobMatchesMultipleError(glob, matched), events)
    ELSE IF Len(matched) = 0
    THEN Outcome("returned", <<>>, GlobMatchesNoneError(glob), events)
    ELSE Outcome("returned", <<matched[1]>>, Nil, events)

\* a faulty ResolveFile: the return for no prefixed file is left out
ResolveFileGlobFirst(re, files, slug, version, glob, events) ==
    LET prefixed == PrefixedFilepaths(re, files) IN
    ChooseGlobMatched(glob, GlobMatchedFilepaths(glob, prefixed),
                      events \o MatchEvents(prefixed))

\* the body after the pattern is compiled
ResolveFile(re, files, slug, version, glob, events) ==
    LET prefixed == PrefixedFilepaths(re, files) IN
    IF Len(prefixed) = 0
    THEN Outcome("returned", <<>>, NoPrefixMatchError(slug, version), events)
    ELSE ChooseGlobMatched(glob, GlobMatchedFilepaths(glob, prefixed),
                           events \o MatchEvents(prefixed))

GetLatestProductFileCall(files, path, endpoint, slug, version, glob, st) ==
    LET listed == listFiles(files, endpoint, st)
        re == validFile(path, slug, version)
    IN IF listed.err # Nil THEN Outcome("returned", <<>>, listed.err, listed.events)
       ELSE IF ~re.ok THEN Outcome("panicked", <<>>, Nil, listed.events)  \* MustCompile
       ELSE ResolveFile(re, listed.paths, slug, version, glob, listed.events)

-----------------------------------------------------------------------------
(* S3Client.DownloadProductToFile                                          *)

\* a faulty BlobContainerError: the endpoint is not looked at
BlobContainerErrorAlways(endpoint, e) == InvalidEndpointError(endpoint, e)

\* the error returned when location.Container fails
BlobContainerError(endpoint, e) ==
    IF endpoint # <<>> THEN InvalidEndpointError(endpoint, e) ELSE StowerError(e)

initializeBlobReader(endpoint, st) ==
    IF st.failAt = "dial"
    THEN [err |-> StowerError(st.err), size |-> 0, events |-> <<"Dial">>]
    ELSE IF st.failAt = "container"
    THEN [err |-> BlobContainerError(endpoint, st.err), size |-> 0,
          events |-> <<"Dial", "Container">>]
    ELSE IF st.failAt = "item"
    THEN [err |-> StowerError(st.err), size |-> 0,
          events |-> <<"Dial", "Container", "Item">>]
    ELSE IF st.failAt = "size"
    THEN [err |-> StowerError(st.err), size |-> 0,
          events |-> <<"Dial", "Container", "Item", "Size">>]
    ELSE IF st.failAt = "open"
    THEN [err |-> StowerError(st.err), size |-> st.size,
          events |-> <<"Dial", "Container", "Item", "Size", "Open">>]
    ELSE [err |-> Nil, size |-> st.size,
          events |-> <<"Dial", "Container", "Item", "Size", "Open">>]

\* the progress bar and the progress writer: the total set, the bytes read
\* through the proxy reader, how often the bar was started and finished, and
\* how often the notice was written
NoProgress == [total |-> 0, read |-> 0, starts |-> 0, finishes |-> 0, notices |-> 0]

startProgressBar(size) ==
    [progress |-> [total |-> size, read |-> 0, starts |-> 1, finishes |-> 0, notices |-> 1],
     events |-> <<"NewBar", "SetTotal", "SetOutput", "NewProxyReader", "Notice", "Start">>]

\* a faulty streamBufferToFile: the error of the copy is wrapped in a new one
streamBufferToFileWrapped(st) ==
    [err |-> IF st.failAt = "copy"
             THEN Error("CopyFailed", <<>>, <<>>, <<>>, <<>>, <<>>, st.err)
             ELSE Nil,
     written |-> st.copied,
     events |-> <<"Copy">>]

\* io.Copy(destinationFile, wrappedBlobReader): the bytes the stream yields
\* reach the file, and the error of a failed read is returned
streamBufferToFile(st) ==
    [err |-> IF st.failAt = "copy" THEN StowerError(st.err) ELSE Nil,
     written |-> st.copied,
     events |-> <<"Copy">>]

\* defer progressBar.Finish()
Finish(progress) == [progress EXCEPT !.finishes = @ + 1]

\* a faulty DownloadProductToFile: Finish is called after a successful copy
\* only, not deferred
DownloadFinishOnSuccess(endpoint, st) ==
    LET opened == initializeBlobReader(endpoint, st)
        bar == startProgressBar(opened.size)
        copy == streamBufferToFile(st)
    IN IF opened.err # Nil
       THEN [pc |-> "returned", value |-> <<>>, err |-> opened.err,
             events |-> opened.events, progress |-> NoProgress, dest |-> 0]
       ELSE IF copy.err # Nil
       THEN [pc |-> "returned", value |-> <<>>, err |-> copy.err,
             events |-> opened.events \o bar.events \o copy.events,
             progress |-> [bar.progress EXCEPT !.read = copy.written],
             dest |-> copy.written]
       ELSE [pc |-> "returned", value |-> <<>>, err |-> Nil,
             events |-> opened.events \o bar.events \o copy.events \o <<"Finish">>,
             progress |-> Finish([bar.progress EXCEPT !.read = copy.written]),
             dest |-> copy.written]

DownloadProductToFileCall(endpoint, st) ==
    LET opened == initializeBlobReader(endpoint, st)
        bar == startProgressBar(opened.size)
        copy == streamBufferToFile(st)
    IN IF opened.err # Nil
       THEN [pc |-> "returned", value |-> <<>>, err |-> opened.err,
             events |-> opened.events, progress |-> NoProgress, dest |-> 0]
       ELSE [pc |-> "returned", value |-> <<>>, err |-> copy.err,
             events |-> opened.events \o bar.events \o copy.events \o <<"Finish">>,
             progress |-> Finish([bar.progress EXCEPT !.read = copy.written]),
             dest |-> copy.written]

-----------------------------------------------------------------------------
(* The client as a state machine: a bucket and a configuration, and one    *)
(* operation at a time, called by a single caller.                         *)

VARIABLES
    bucket,     \* the keys of the bucket, in the order Walk reports them
    path,       \* S3Client.path
    endpoint,   \* the "endpoint" entry of S3Client.Config
    pc,         \* "idle", or how the last call ended: "returned", "panicked"
    call,       \* the operation called and its arguments
    stower,     \* how the Stower behaved during the call
    result,     \* the value and the error the call returned
    events,     \* the calls the operation made, in order
    progress,   \* the progress bar and writer
    dest        \* the bytes written to the destination file

vars == <<bucket, path, endpoint, pc, call, stower, result, events, progress, dest>>

Call(op, slug, version, glob, name) ==
    [op |-> op, slug |-> slug, version |-> version, glob |-> glob, name |-> name]

NoCall == Call("none", <<>>, <<>>, <<>>, <<>>)

NoResult == [value |-> <<>>, err |-> Nil]

Init ==
    /\ bucket \in Listings(MaxFiles)
    /\ path \in Paths
    /\ endpoint \in Endpoints
    /\ pc = "idle"
    /\ call = NoCall
    /\ stower = Healthy
    /\ result = NoResult
    /\ events = <<>>
    /\ progress = NoProgress
    /\ dest = 0

GetAllProductVersions ==
    /\ pc = "idle"
    /\ \E slug \in Slugs, st \in ListBehaviours :
         LET out == GetAllProductVersionsCall(bucket, path, endpoint, slug, st) IN
         /\ call' = Call("GetAllProductVersions", slug, <<>>, <<>>, <<>>)
         /\ stower' = st
         /\ pc' = out.pc
         /\ result' = [value |-> out.value, err |-> out.err]
         /\ events' = out.events
    /\ UNCHANGED <<bucket, path, endpoint, progress, dest>>

GetLatestProductFile ==
    /\ pc = "idle"
    /\ \E slug \in Slugs, version \in Versions, glob \in Globs, st \in ListBehaviours :
         LET out == GetLatestProductFileCall(bucket, path, endpoint, slug, version, glob, st) IN
         /\ call' = Call("GetLatestProductFile", slug, version, glob, <<>>)
         /\ stower' = st
         /\ pc' = out.pc
         /\ result' = [value |-> out.value, err |-> out.err]
         /\ events' = out.events
    /\ UNCHANGED <<bucket, path, endpoint, progress, dest>>

DownloadProductToFile ==
    /\ pc = "idle"
    /\ \E name \in Range(bucket), st \in BlobBehaviours :
         LET out == DownloadProductToFileCall(endpoint, st) IN
         /\ call' = Call("DownloadProductToFile", <<>>, <<>>, <<>>, name)
         /\ stower' = st
         /\ pc' = out.pc
         /\ result' = [value |-> out.value, err |-> out.err]
         /\ events' = out.events
         /\ progress' = out.progress
         /\ dest' = out.dest
    /\ UNCHANGED <<bucket, path, endpoint>>

DownloadProductStemcell ==
    /\ pc = "idle"
    /\ \E name \in Range(bucket) :
         call' = Call("DownloadProductStemcell", <<>>, <<>>, <<>>, name)
    /\ stower' = Healthy
    /\ pc' = "returned"
    /\ result' = [value |-> <<>>, err |-> UnsupportedError]
    /\ events' = <<>>
    /\ UNCHANGED <<bucket, path, endpoint, progress, dest>>

\* the caller takes the result; the next call starts with a fresh
\* destination file and progress writer
Return ==
    /\ pc = "returned"
    /\ pc' = "idle"
    /\ call' = NoCall
    /\ stower' = Healthy
    /\ result' = NoResult
    /\ events' = <<>>
    /\ progress' = NoProgress
    /\ dest' = 0
    /\ UNCHANGED <<bucket, path, endpoint>>

Next ==
    \/ GetAllProductVersions
    \/ GetLatestProductFile
    \/ DownloadProductToFile
    \/ DownloadProductStemcell
    \/ Return

Spec == Init /\ [][Next]_vars

-----------------------------------------------------------------------------
(* What the properties below speak of.                                     *)

IsList == pc # "idle" /\ call.op = "GetAllProductVersions"
IsLookup == pc # "idle" /\ call.op = "GetLatestProductFile"
IsDownload == pc # "idle" /\ call.op = "DownloadProductToFile"

\* the Stower reported the bucket's keys
WalkDone == stower.failAt = "none"

\* the keys listed to the call
ListedKeys == IF WalkDone THEN Range(bucket) ELSE {}

\* the listed keys the listing pattern of the call's slug matches
ListPatternKeys ==
    LET re == productFileCompiledRegex(path, call.slug) IN
    {f \in ListedKeys : re.ok /\ FindStringSubmatch(re, f).found}

\* the version the listing pattern extracts from key f
ExtractedVersion(f) ==
    FindStringSubmatch(productFileCompiledRegex(path, call.slug), f).sub[1]

\* the listed keys the exact [slug,version] pattern of the call matches
PrefixKeys ==
    LET re == validFile(path, call.slug, call.version) IN
    {f \in ListedKeys : re.ok /\ MatchString(re, f)}

\* those of them whose base name the call's glob matches
GlobKeys == {f \in PrefixKeys : Match(call.glob, Base(f))}

StartsWith(f, p) == Len(p) <= Len(f) /\ SubSeq(f, 1, Len(p)) = p

\* key f holds the trimmed path and the tag [slug,version] as written
HasLiteralTag(f, slug, version) ==
    \E a \in {<<>>, <<"/">>}, b \in {<<>>, <<"/">>} :
        StartsWith(f, a \o Trim(path) \o b \o <<"[">> \o slug \o <<",">> \o version \o <<"]">>)

Count(seq, e) == Cardinality({i \in 1..Len(seq) : seq[i] = e})

Index(seq, e) == CHOOSE i \in 1..Len(seq) : seq[i] = e /\ \A j \in 1..(i - 1) : seq[j] # e

\* the calls made to the Stower and to the blob's stream
StowerEvents == {"Dial", "Container", "Walk", "Item", "Size", "Open", "Copy"}

\* the event of the step the Stower fails at
FailedEvent ==
    CASE stower.failAt = "dial" -> "Dial"
      [] stower.failAt = "container" -> "Container"
      [] stower.failAt = "walk" -> "Walk"
      [] stower.failAt = "item" -> "Item"
      [] stower.failAt = "size" -> "Size"
      [] stower.failAt = "open" -> "Open"
      [] OTHER -> "Copy"

-----------------------------------------------------------------------------
C2_DistinctFirstOccurrence ==
    (IsList /\ pc = "returned" /\ result.err = Nil) =>
        LET vs == result.value
            first(v) == CHOOSE i \in 1..Len(bucket) :
                            /\ bucket[i] \in ListPatternKeys
                            /\ ExtractedVersion(bucket[i]) = v
                            /\ \A j \in 1..(i - 1) :
                                   ~(bucket[j] \in ListPatternKeys
                                     /\ ExtractedVersion(bucket[j]) = v)
        IN /\ \A i, j \in 1..Len(vs) : i # j => vs[i] # vs[j]
           /\ Range(vs) = {ExtractedVersion(f) : f \in ListPatternKeys}
           /\ \A i, j \in 1..Len(vs) : i < j => first(vs[i]) < first(vs[j])

\* two versions are returned from three matching keys, two sharing a version
C2_Witness ==
    /\ IsList
    /\ result.err = Nil
    /\ Len(result.value) = 2
    /\ Cardinality(ListPatternKeys) = 3

(* C3 as claimed: GetAllProductVersions fails with "no files for slug",    *)
(* carrying the slug, when the listing is empty and when no listed key     *)
(* matches the slug's pattern.                                             *)
C3_Claimed ==
    (IsList /\ pc = "returned" /\ WalkDone /\ ListPatternKeys = {}) =>
        result = [value |-> <<>>, err |-> NoFilesForSlugError(call.slug)]

(* C3 amended: when the listing is not empty and no listed key matches the *)
(* slug's pattern, GetAllProductVersions fails with "no files for slug",   *)
(* carrying the slug (and does not return when the slug is no regular      *)
(* expression); when the listing is empty it fails with "bucket contains   *)
(* no files", which carries no slug.                                       *)
C3_NotFoundKinds ==
    (IsList /\ WalkDone) =>
        /\ bucket = <<>> =>
              pc = "returned" /\ result = [value |-> <<>>, err |-> BucketEmptyError]
        /\ (bucket # <<>> /\ ListPatternKeys = {}) =>
              IF productFileCompiledRegex(path, call.slug).ok
              THEN /\ pc = "returned"
                   /\ result = [value |-> <<>>, err |-> NoFilesForSlugError(call.slug)]
              ELSE pc = "panicked"

\* a listing of keys none of which matches the slug
C3_Witness ==
    /\ IsList
    /\ bucket # <<>>
    /\ result.err.kind = "NoFilesForSlug"
    /\ result.err.slug = call.slug

(* C4: whenever two or more listed keys match the exact [slug,version]     *)
(* pattern and the glob, GetLatestProductFile fails with the "glob matches *)
(* multiple" error, and the paths the error enumerates are exactly those   *)
(* keys.                                                                   *)
C4_AmbiguousListsAll ==
    (IsLookup /\ Cardinality(GlobKeys) >= 2) =>
        /\ pc = "returned"
        /\ result.value = <<>>
        /\ result.err.kind = "GlobMatchesMultiple"
        /\ result.err.glob = call.glob
        /\ Range(result.err.paths) = GlobKeys
        /\ Len(result.err.paths) = Cardinality(GlobKeys)

\* two keys are enumerated and a third key with the prefix is left out
C4_Witness ==
    /\ IsLookup
    /\ result.err.kind = "GlobMatchesMultiple"
    /\ Len(result.err.paths) = 2
    /\ Cardinality(PrefixKeys) = 3

(* C5 as claimed: if no listed key matches the exact (slug, version)       *)
(* pattern, GetLatestProductFile fails with the "no prefix match" error    *)
(* before any glob matching, whatever the glob.                            *)
C5_Claimed ==
    (IsLookup /\ pc = "returned" /\ WalkDone /\ PrefixKeys = {}) =>
        /\ result = [value |-> <<>>, err |-> NoPrefixMatchError(call.slug, call.version)]
        /\ "Match" \notin Range(events)

(* C5 amended: if the listing is not empty and no listed key matches the   *)
(* exact (slug, version) pattern, GetLatestProductFile fails with the "no  *)
(* prefix match" error, which does not depend on the glob, before any glob *)
(* matching (and does not return when the slug is no regular expression);  *)
(* if the listing is empty it fails with "bucket contains no files", also  *)
(* before any glob matching.                                               *)
C5_NoPrefixBeforeGlob ==
    (IsLookup /\ WalkDone /\ PrefixKeys = {}) =>
        /\ "Match" \notin Range(events)
        /\ bucket = <<>> =>
              pc = "returned" /\ result = [value |-> <<>>, err |-> BucketEmptyError]
        /\ bucket # <<>> =>
              IF validFile(path, call.slug, call.version).ok
              THEN /\ pc = "returned"
                   /\ result = [value |-> <<>>,
                                err |-> NoPrefixMatchError(call.slug, call.version)]
              ELSE pc = "panicked"

\* no prefix match, for a malformed glob
C5_Witness ==
    /\ IsLookup
    /\ bucket # <<>>
    /\ result.err.kind = "NoPrefixMatch"
    /\ call.glob = <<"[">>

(* C6: in listing mode and in lookup mode the path prefix and the slug are *)
(* matched as literal text: every version listed comes from a key that     *)
(* holds the trimmed prefix and [slug,version] as written, and every key   *)
(* resolved or enumerated holds the trimmed prefix and [slug,version] as   *)
(* written.                                                                *)
C6_LiteralPrefixAndSlug ==
    /\ (IsList /\ pc = "returned") =>
          \A i \in 1..Len(result.value) :
              \E f \in Range(bucket) : HasLiteralTag(f, call.slug, result.value[i])
    /\ (IsLookup /\ pc = "returned") =>
          /\ \A i \in 1..Len(result.value) :
                 HasLiteralTag(result.value[i], call.slug, call.version)
          /\ \A i \in 1..Len(result.err.paths) :
                 HasLiteralTag(result.err.paths[i], call.slug, call.version)

(* C7: in the listing operations and in the download, the error returned   *)
(* is an InvalidEndpoint error exactly when resolving the container failed *)
(* and an endpoint is configured; it then embeds the endpoint and the      *)
(* cause; with no endpoint the container's error is returned as it is.     *)
C7_InvalidEndpointIff ==
    (IsList \/ IsLookup \/ IsDownload) =>
        /\ result.err.kind = "InvalidEndpoint"
              <=> (stower.failAt = "container" /\ endpoint # <<>>)
        /\ (stower.failAt = "container" /\ endpoint # <<>>) =>
              result.err = InvalidEndpointError(endpoint, stower.err)
        /\ (stower.failAt = "container" /\ endpoint = <<>>) =>
              result.err = StowerError(stower.err)

\* a download whose container does not resolve, with an endpoint configured
C7_Witness ==
    /\ IsDownload
    /\ endpoint # <<>>
    /\ result.err.kind = "InvalidEndpoint"
    /\ result.err.cause = stower.err

(* C8: in DownloadProductToFile a progress bar that was started is         *)
(* finished exactly once, as the last step, whether the copy ends at the   *)
(* end of the stream or with an error; the notice is written before the    *)
(* copy; and when opening the blob fails no bar is created or started and  *)
(* no notice is written.                                                   *)
C8_ProgressFinalized ==
    IsDownload =>
        /\ progress.finishes = progress.starts
        /\ Count(events, "Finish") = Count(events, "Start")
        /\ Count(events, "Start") <= 1
        /\ "Start" \in Range(events) => events[Len(events)] = "Finish"
        /\ "Copy" \in Range(events) =>
              /\ progress.notices = 1
              /\ Index(events, "Notice") < Index(events, "Copy")
              /\ Index(events, "Start") < Index(events, "Copy")
        /\ stower.failAt \in {"none", "copy"} => progress.starts = 1
        /\ stower.failAt \notin {"none", "copy"} =>
              /\ progress = NoProgress
              /\ Range(events) \cap {"NewBar", "Notice", "Start", "Copy", "Finish"} = {}

\* the copy failed and the bar was finished
C8_Witness ==
    /\ IsDownload
    /\ stower.failAt = "copy"
    /\ result.err # Nil
    /\ progress.starts = 1
    /\ progress.finishes = 1

(* C9 as claimed: an error of any step of opening or copying the artifact  *)
(* is returned by DownloadProductToFile as it is, and no step is made      *)
(* twice or after the failing one.                                         *)
C9_Claimed ==
    (IsDownload /\ stower.failAt # "none") =>
        /\ result.err = StowerError(stower.err)
        /\ \A e \in StowerEvents : Count(events, e) <= 1
        /\ \A i \in 1..Len(events) :
               events[i] \in StowerEvents => i <= Index(events, FailedEvent)

(* C9 amended: an error of dial, item, size, open or copy, and an error of *)
(* the container when no endpoint is configured, is returned by            *)
(* DownloadProductToFile as it is; an error of the container when an       *)
(* endpoint is configured is returned as an InvalidEndpoint error that     *)
(* embeds the endpoint and the cause; no step is made twice or after the   *)
(* failing one.                                                            *)
C9_VerbatimUnlessEndpoint ==
    (IsDownload /\ stower.failAt # "none") =>
        /\ result.err = IF stower.failAt = "container" /\ endpoint # <<>>
                        THEN InvalidEndpointError(endpoint, stower.err)
                        ELSE StowerError(stower.err)
        /\ \A e \in StowerEvents : Count(events, e) <= 1
        /\ \A i \in 1..Len(events) :
               events[i] \in StowerEvents => i <= Index(events, FailedEvent)

\* the copy failed after the blob was opened, and its error is returned
C9_Witness ==
    /\ IsDownload
    /\ stower.failAt = "copy"
    /\ stower.copied < stower.size
    /\ result.err = StowerError(stower.err)
    /\ Count(events, "Copy") = 1

(* C10: every version GetAllProductVersions returns is one for which       *)
(* GetLatestProductFile, over the same listing and for any glob, finds a   *)
(* prefix candidate (it does not fail with "no prefix match"), and every   *)
(* key the version was extracted from is among the prefix candidates.      *)
C10_ListingAgreesWithLookup ==
    (IsList /\ pc = "returned" /\ result.err = Nil) =>
        \A i \in 1..Len(result.value) :
            LET version == result.value[i]
                re == validFile(path, call.slug, version)
            IN /\ \A glob \in Globs :
                      LET out == GetLatestProductFileCall(bucket, path, endpoint,
                                                          call.slug, version, glob, Healthy)
                      IN out.pc = "returned" /\ out.err.kind # "NoPrefixMatch"
               /\ \A f \in ListPatternKeys :
                      ExtractedVersion(f) = version =>
                          f \in Range(PrefixedFilepaths(re, bucket))

=============================================================================
